---- MODULE Spec2Model ----
(***************************************************************************)
(* Model of the subtitle resolution engine of stremio-subs-ro.             *)
(*                                                                         *)
(* Two revisions of the coordinator are in the repository: src/addon.js    *)
(* (plain Map caches, lazy page metadata, top-5 slice) and                 *)
(* src/unnamed/part_000 (SimpleLRU caches, retail bonus, no slice).  The   *)
(* variable rev selects the revision a behaviour runs.                     *)
(*                                                                         *)
(* JavaScript strings are TLA+ strings; the JavaScript values null,        *)
(* undefined and NaN are tagged records.                                   *)
(***************************************************************************)
EXTENDS Integers, Sequences, FiniteSets, TLC

(***************************************************************************)
(* Bounds of the model.                                                    *)
(***************************************************************************)
\* the calls of subtitlesHandler in a behaviour, and in a behaviour of Spec
MaxCalls == 3
PairCalls == 2
\* the times the clock advances in a behaviour
MaxTicks == 2
\* the get and set calls made on a SimpleLRU taken on its own
MaxOps == 4

(***************************************************************************)
(* String helpers (JavaScript String.prototype).                           *)
(***************************************************************************)
CharAt(s, i) == SubSeq(s, i, i)

Digits == {"0", "1", "2", "3", "4", "5", "6", "7", "8", "9"}

DigitVal(c) ==
  CASE c = "0" -> 0 [] c = "1" -> 1 [] c = "2" -> 2 [] c = "3" -> 3
    [] c = "4" -> 4 [] c = "5" -> 5 [] c = "6" -> 6 [] c = "7" -> 7
    [] c = "8" -> 8 [] c = "9" -> 9

DigitChar(d) == CharAt("0123456789", d + 1)

\* s.includes(t)
Includes(s, t) ==
  \E i \in 1..(Len(s) - Len(t) + 1) : SubSeq(s, i, i + Len(t) - 1) = t

\* index of the first occurrence of the one-character string c in s, 0 if none
IndexOf(s, c) ==
  IF \E i \in 1..Len(s) : CharAt(s, i) = c
  THEN CHOOSE i \in 1..Len(s) :
         CharAt(s, i) = c /\ \A j \in 1..(i - 1) : CharAt(s, j) # c
  ELSE 0

\* s.split(c) for a one-character separator
RECURSIVE Split(_, _)
Split(s, c) ==
  LET k == IndexOf(s, c) IN
  IF k = 0 THEN <<s>>
  ELSE <<SubSeq(s, 1, k - 1)>> \o Split(SubSeq(s, k + 1, Len(s)), c)

\* arr.join(sep); also what a template literal makes of an array (sep = ",")
RECURSIVE Join(_, _)
Join(arr, sep) ==
  IF Len(arr) = 0 THEN ""
  ELSE IF Len(arr) = 1 THEN arr[1]
  ELSE arr[1] \o sep \o Join(Tail(arr), sep)

\* String(n) for a natural number
RECURSIVE NatToString(_)
NatToString(n) ==
  IF n < 10 THEN DigitChar(n)
  ELSE NatToString(n \div 10) \o DigitChar(n % 10)

(***************************************************************************)
(* JavaScript values that are not strings or numbers.                      *)
(***************************************************************************)
Null == [k |-> "null", n |-> 0]
NaN == [k |-> "NaN", n |-> 0]
Num(n) == [k |-> "num", n |-> n]

\* String(v), as a template literal converts a number, NaN or null
ToStr(v) ==
  CASE v.k = "null" -> "null"
    [] v.k = "NaN" -> "NaN"
    [] v.k = "num" -> NatToString(v.n)

\* the length of the longest prefix of s made of digits
RECURSIVE DigitPrefixLen(_)
DigitPrefixLen(s) ==
  IF Len(s) > 0 /\ Head(s) \in Digits THEN 1 + DigitPrefixLen(Tail(s)) ELSE 0

RECURSIVE DigitsValue(_, _)
DigitsValue(s, acc) ==
  IF Len(s) = 0 THEN acc
  ELSE DigitsValue(Tail(s), 10 * acc + DigitVal(Head(s)))

\* parseInt(s, 10) for s without sign or leading blanks
parseInt(s) ==
  LET n == DigitPrefixLen(s) IN
  IF n = 0 THEN NaN ELSE Num(DigitsValue(SubSeq(s, 1, n), 0))

parseStremioId(id) ==
  LET parts == Split(id, ":") IN
  [imdbId |-> parts[1],
   season |-> IF Len(parts) >= 2 /\ parts[2] # "" THEN parseInt(parts[2]) ELSE Null,
   episode |-> IF Len(parts) >= 3 /\ parts[3] # "" THEN parseInt(parts[3]) ELSE Null]

(***************************************************************************)
(* Character classes and case mapping.                                     *)
(***************************************************************************)
LowerAlphabet == "abcdefghijklmnopqrstuvwxyz"
UpperAlphabet == "ABCDEFGHIJKLMNOPQRSTUVWXYZ"

LowerChars == {CharAt(LowerAlphabet, i) : i \in 1..26}
UpperChars == {CharAt(UpperAlphabet, i) : i \in 1..26}
\* [a-z0-9]
LowerAlnum == LowerChars \cup Digits
\* [a-zA-Z0-9]
Alnum == LowerChars \cup UpperChars \cup Digits
\* \w
WordChars == Alnum \cup {"_"}
\* \s
Whitespace == {" ", "\t"}

RECURSIVE MapChars(_, _, _)
MapChars(s, from, to) ==
  IF Len(s) = 0 THEN ""
  ELSE LET c == Head(s)
           k == IndexOf(from, c)
       IN (IF k = 0 THEN c ELSE CharAt(to, k)) \o MapChars(Tail(s), from, to)

toLowerCase(s) == MapChars(s, UpperAlphabet, LowerAlphabet)
toUpperCase(s) == MapChars(s, LowerAlphabet, UpperAlphabet)

\* s.padStart(2, "0")
padStart2(s) == IF Len(s) < 2 THEN SubSeq("00", 1, 2 - Len(s)) \o s ELSE s

(***************************************************************************)
(* Regular expressions, as functions from a set of positions where a match *)
(* may start to the set of positions where it may end.  A position is the  *)
(* index of the next character to read.                                    *)
(***************************************************************************)
Pos(t) == 1..(Len(t) + 1)

HasAt(t, i, lit) == i + Len(lit) - 1 <= Len(t) /\ SubSeq(t, i, i + Len(lit) - 1) = lit

Lit(t, S, lit) == {i + Len(lit) : i \in {j \in S : HasAt(t, j, lit)}}

AltLit(t, S, lits) == UNION {Lit(t, S, l) : l \in lits}

\* one or more characters of class C
Plus(t, S, C) ==
  {j \in Pos(t) : \E i \in S : i < j /\ \A k \in i..(j - 1) : CharAt(t, k) \in C}

Star(t, S, C) == S \cup Plus(t, S, C)

\* .*  and  .*?  (for test() greediness does not matter)
DotStar(t, S) == {j \in Pos(t) : \E i \in S : i <= j}

IsWordAt(t, i) == i >= 1 /\ i <= Len(t) /\ CharAt(t, i) \in WordChars

\* \b
Boundary(t, S) == {i \in S : IsWordAt(t, i - 1) # IsWordAt(t, i)}

\* one character of class C
Class(t, S, C) == {i + 1 : i \in {j \in S : j <= Len(t) /\ CharAt(t, j) \in C}}

(***************************************************************************)
(* lib/matcher.js                                                          *)
(***************************************************************************)
QUALITY_TAGS ==
  <<"CAM", "CAMRIP", "CAM-RIP", "HDCAM", "TS", "HDTS", "TELESYNC", "PDVD",
    "PREDVDRIP", "WP", "WORKPRINT", "TC", "HDTC", "TELECINE", "PPV",
    "PPVRIP", "SCR", "SCREENER", "DVDSCR", "DVDSCREENER", "BDSCR",
    "WEBSCREENER", "DDC", "R5", "DVDRIP", "DVDMUX", "DVDR", "DVD-FULL",
    "FULL-RIP", "DVD-5", "DVD-9", "DSR", "DSRIP", "SATRIP", "DTHRIP",
    "DVBRIP", "HDTV", "PDTV", "DTVRIP", "TVRIP", "HDTVRIP", "VODRIP",
    "VODR", "HC", "HDRIP", "WEBCAP", "WEB-CAP", "WEB-DL", "WEBDL",
    "WEBRIP", "WEB-RIP", "WEB-DLRIP", "BLURAY", "BLU-RAY", "BDRIP",
    "BRRIP", "BRIP", "BDR", "BD25", "BD50", "BD66", "BD100", "BD5", "BD9",
    "BDMV", "BDISO", "COMPLETE.BLURAY", "REMUX">>

TECHNICAL_TAGS ==
  <<"1080P", "720P", "2160P", "4K", "UHD", "480P", "576P", "HDR", "HDR10",
    "HDR10PLUS", "DOLBYVISION", "DV", "X264", "H264", "X265", "H265",
    "HEVC", "AVC", "XVID", "DIVX", "VP9", "AV1", "AAC", "AC3", "DTS",
    "DTSHD", "DTSHDMA", "TRUEHD", "ATMOS", "DDP5", "DDP2", "DDP", "DD5",
    "DD2", "EAC3", "FLAC", "MP3", "OPUS", "5.1", "7.1", "2.0", "1.0",
    "INTERNAL", "REPACK", "PROPER", "LIMITED", "MULTI", "DUBBED", "SUBBED",
    "SUBS", "RO", "EN", "EXTENDED", "UNRATED", "DIRECTORS", "CUT",
    "THEATRICAL", "MKV", "MP4", "AVI">>

IGNORED_TAGS == QUALITY_TAGS \o TECHNICAL_TAGS

SeqToSet(q) == {q[i] : i \in 1..Len(q)}

\* filename.replace(/\.[a-zA-Z0-9]+$/, "")
StripExtension(s) ==
  LET dots == {i \in 1..(Len(s) - 1) :
                 /\ CharAt(s, i) = "."
                 /\ \A j \in (i + 1)..Len(s) : CharAt(s, j) \in Alnum}
  IN IF dots = {} THEN s
     ELSE SubSeq(s, 1, (CHOOSE i \in dots : \A j \in dots : i <= j) - 1)

\* the length of the longest prefix of s made of characters of C
RECURSIVE RunLen(_, _)
RunLen(s, C) ==
  IF Len(s) > 0 /\ Head(s) \in C THEN 1 + RunLen(Tail(s), C) ELSE 0

\* name.match(/-([a-z0-9]+)(?:[\[\s]|$)/): group 1 of the leftmost match, "" if none
DashMatch(name) ==
  LET run(i) == RunLen(SubSeq(name, i + 1, Len(name)), LowerAlnum)
      ok(i) == /\ CharAt(name, i) = "-"
               /\ run(i) >= 1
               /\ \/ i + run(i) = Len(name)
                  \/ CharAt(name, i + run(i) + 1) \in ({"["} \cup Whitespace)
      hits == {i \in 1..Len(name) : ok(i)}
  IN IF hits = {} THEN ""
     ELSE LET i == CHOOSE h \in hits : \A g \in hits : h <= g
          IN SubSeq(name, i + 1, i + run(i))

\* name.match(/^\[([a-z0-9.]+)\]|\[([a-z0-9.]+)\]$/): the group that matched, "" if none
BracketMatch(name) ==
  LET cls == LowerAlnum \cup {"."}
      n == Len(name)
      headRun == RunLen(SubSeq(name, 2, n), cls)
      atStart == /\ n >= 3
                 /\ CharAt(name, 1) = "["
                 /\ headRun >= 1
                 /\ 2 + headRun <= n
                 /\ CharAt(name, 2 + headRun) = "]"
      ends == {i \in 1..(n - 2) :
                 /\ CharAt(name, i) = "["
                 /\ CharAt(name, n) = "]"
                 /\ \A j \in (i + 1)..(n - 1) : CharAt(name, j) \in cls}
  IN IF atStart THEN SubSeq(name, 2, 1 + headRun)
     ELSE IF ends # {} THEN SubSeq(name, (CHOOSE i \in ends : TRUE) + 1, n - 1)
     ELSE ""

\* s.replace(/[.\-_[\]()]/g, " ").trim().split(/\s+/)
RECURSIVE SplitWords(_, _)
SplitWords(s, seps) ==
  IF Len(s) = 0 THEN <<>>
  ELSE IF Head(s) \in seps THEN SplitWords(Tail(s), seps)
  ELSE LET n == RunLen(s, {CharAt(s, i) : i \in 1..Len(s)} \ seps)
       IN <<SubSeq(s, 1, n)>> \o SplitWords(SubSeq(s, n + 1, Len(s)), seps)

Words(name) ==
  LET w == SplitWords(name, {".", "-", "_", "[", "]", "(", ")"} \cup Whitespace)
  IN IF Len(w) = 0 THEN <<"">> ELSE w

IsYear(word) == Len(word) = 4 /\ \A i \in 1..4 : CharAt(word, i) \in Digits

\* The value null of getReleaseGroup: no group is ever the empty string.
NoGroup == ""

getReleaseGroup(filename) ==
  IF filename = "" THEN NoGroup
  ELSE
    LET name == toLowerCase(StripExtension(filename))
        dashMatch == DashMatch(name)
        bracketMatch == BracketMatch(name)
        words == Words(name)
        good(i) == LET word == toUpperCase(words[i])
                   IN /\ word \notin SeqToSet(IGNORED_TAGS)
                      /\ ~IsYear(word)
                      /\ Len(word) >= 2
        lo == IF Len(words) - 2 > 0 THEN Len(words) - 1 ELSE 1
        cands == {i \in lo..Len(words) : good(i)}
    IN IF dashMatch # "" THEN toUpperCase(dashMatch)
       ELSE IF bracketMatch # "" THEN toUpperCase(bracketMatch)
       ELSE IF cands # {} THEN toUpperCase(words[CHOOSE i \in cands : \A j \in cands : j <= i])
       ELSE NoGroup

\* the tags of the list found in the upper-cased filename, in list order
RECURSIVE TagsIn(_, _)
TagsIn(normalized, tags) ==
  IF Len(tags) = 0 THEN <<>>
  ELSE (IF Includes(normalized, Head(tags)) THEN <<Head(tags)>> ELSE <<>>)
       \o TagsIn(normalized, Tail(tags))

getQualityTags(filename) ==
  IF filename = "" THEN <<>> ELSE TagsIn(toUpperCase(filename), QUALITY_TAGS)

getTechnicalTags(filename) ==
  IF filename = "" THEN <<>> ELSE TagsIn(toUpperCase(filename), TECHNICAL_TAGS)

(***************************************************************************)
(* fuzz.token_set_ratio of the fuzzball package returns a similarity ratio *)
(* in 0..100.  The package is not part of the repository: the operator     *)
(* lists the ratio taken for each (lower-cased) subtitle filename of the   *)
(* model against the video filename of the requests, and 50 for any other. *)
(***************************************************************************)
token_set_ratio(a, b) ==
  CASE b = "show.s01e02.720p.web-dl-grp.srt" -> 100
    [] b = "show.s01e03.720p.web-dl-grp.srt" -> 93
    [] b = "show.s02e02.hdtv-xyz.srt" -> 60
    [] b = "show.1x02.srt" -> 30
    [] b = "show episode 2.srt" -> 0
    [] b = "show.s01e02.srt" -> 67
    [] OTHER -> 50

\* Math.round(x * 0.15) for an integer x in 0..100
RoundScaled(x) == (15 * x + 50) \div 100

Min(a, b) == IF a < b THEN a ELSE b

\* metadata = null, and a metadata object {fps, formats}
NoMetadata == [present |-> FALSE, fps |-> "", formats |-> <<>>]
Metadata(fps, formats) == [present |-> TRUE, fps |-> fps, formats |-> formats]

\* "const hasGroupMatch = ..." of calculateMatchScore
hasGroupMatch(videoFilename, subtitleFilename) ==
  LET vGroup == getReleaseGroup(videoFilename)
      sGroup == getReleaseGroup(subtitleFilename)
      subNormalized == toUpperCase(subtitleFilename)
  IN \/ vGroup # NoGroup /\ sGroup # NoGroup /\ vGroup = sGroup
     \/ vGroup # NoGroup /\ Includes(subNormalized, vGroup)

\* "hasSourceMatchInFilename || hasSourceMatchInMetadata" of calculateMatchScore
hasSourceMatch(videoFilename, subtitleFilename, metadata) ==
  LET vTags == getQualityTags(videoFilename)
      subNormalized == toUpperCase(subtitleFilename)
      metadataFormats ==
        IF metadata.present
        THEN [i \in 1..Len(metadata.formats) |-> toUpperCase(metadata.formats[i])]
        ELSE <<>>
      hasSourceMatchInFilename ==
        \E i \in 1..Len(vTags) : Includes(subNormalized, vTags[i])
      hasSourceMatchInMetadata ==
        /\ Len(metadataFormats) > 0
        /\ \E i \in 1..Len(vTags) : \E j \in 1..Len(metadataFormats) :
             \/ Includes(metadataFormats[j], vTags[i])
             \/ Includes(vTags[i], metadataFormats[j])
  IN hasSourceMatchInFilename \/ hasSourceMatchInMetadata

\* a score made of the similarity bonus alone, whatever the names are
ScoreFuzzyOnly(videoFilename, subtitleFilename, metadata, fuzzyScore) ==
  Min(15, RoundScaled(fuzzyScore))

\* calculateMatchScore, given the ratio fuzz.token_set_ratio returns for the two names
\* (a missing filename takes the branch of the empty one)
ScoreWith(videoFilename, subtitleFilename, metadata, fuzzyScore) ==
  IF videoFilename = "" \/ subtitleFilename = "" THEN 0 ELSE
  LET vTechTags == getTechnicalTags(videoFilename)
      subNormalized == toUpperCase(subtitleFilename)
      techMatchCount ==
        Cardinality({i \in 1..Len(vTechTags) : Includes(subNormalized, vTechTags[i])})
      score == (IF hasGroupMatch(videoFilename, subtitleFilename) THEN 50 ELSE 0)
               + (IF hasSourceMatch(videoFilename, subtitleFilename, metadata) THEN 30 ELSE 0)
               + (IF techMatchCount > 0 THEN 5 ELSE 0)
               + Min(15, RoundScaled(fuzzyScore))
  IN Min(100, score)

calculateMatchScore(videoFilename, subtitleFilename, metadata) ==
  ScoreWith(videoFilename, subtitleFilename, metadata,
            token_set_ratio(toLowerCase(videoFilename), toLowerCase(subtitleFilename)))

SeasonKeywords ==
  {"season", "sezon", "stagione", "saison", "staffel", "évad", "κύκλος", "temporada"}
EpisodeKeywords ==
  {"episode", "episod", "episodio", "épisode", "folge", "epizód", "επεισόδιο", "episódio"}

\* /s\d+e\d+|\d+x\d+|(?:season|...)\s*\d+/i .test(t), t already lower-cased
seasonIndicatorRegex(t) ==
  \/ Plus(t, Lit(t, Plus(t, Lit(t, Pos(t), "s"), Digits), "e"), Digits) # {}
  \/ Plus(t, Lit(t, Plus(t, Pos(t), Digits), "x"), Digits) # {}
  \/ Plus(t, Star(t, AltLit(t, Pos(t), SeasonKeywords), Whitespace), Digits) # {}

\* new RegExp(`s${a}e${b}\\b`, "i").test(t)
TestSxEy(t, a, b) ==
  Boundary(t, Lit(t, Pos(t), "s" \o toLowerCase(a) \o "e" \o toLowerCase(b))) # {}

\* new RegExp(`\\b${a}x${b}\\b`, "i").test(t)
TestNxM(t, a, b) ==
  Boundary(t, Lit(t, Boundary(t, Pos(t)), toLowerCase(a) \o "x" \o toLowerCase(b))) # {}

\* new RegExp(`${seasonKeywords}\\s*${a}.*?${episodeKeywords}\\s*${b}`, "i").test(t)
TestVerbose(t, a, b) ==
  LET afterSeason ==
        Lit(t, Star(t, AltLit(t, Pos(t), SeasonKeywords), Whitespace), toLowerCase(a))
      afterKeyword ==
        Star(t, AltLit(t, DotStar(t, afterSeason), EpisodeKeywords), Whitespace)
  IN Lit(t, afterKeyword, toLowerCase(b)) # {}

\* new RegExp(`\\be${b}\\b`, "i").test(t)
TestE(t, b) ==
  Boundary(t, Lit(t, Boundary(t, Pos(t)), "e" \o toLowerCase(b))) # {}

\* new RegExp(`\\bep\\.?\\s*${b}\\b`, "i").test(t)
TestEp(t, b) ==
  LET afterEp == Lit(t, Boundary(t, Pos(t)), "ep")
      afterDot == afterEp \cup Lit(t, afterEp, ".")
  IN Boundary(t, Lit(t, Star(t, afterDot, Whitespace), toLowerCase(b))) # {}

\* new RegExp(`\\b(?:episode|...)\\s*${b}\\b`, "i").test(t)
TestEpisodeWord(t, b) ==
  LET afterKeyword == Star(t, AltLit(t, Boundary(t, Pos(t)), EpisodeKeywords), Whitespace)
  IN Boundary(t, Lit(t, afterKeyword, toLowerCase(b))) # {}

\* new RegExp(`[\\-\\._\\s]${b}[\\-\\._\\s\\[]`, "i").test(t)
TestDelimited(t, b) ==
  LET delim == {"-", ".", "_"} \cup Whitespace
  IN Class(t, Lit(t, Class(t, Pos(t), delim), toLowerCase(b)), delim \cup {"["}) # {}

\* season and episode are JavaScript values: a number, NaN or null
matchesEpisode(text, season, episode) ==
  IF text = "" \/ episode = Null THEN FALSE
  ELSE
    LET normalizedText == toLowerCase(text)
        s == padStart2(ToStr(season))
        e == padStart2(ToStr(episode))
        sShort == ToStr(season)
        eShort == ToStr(episode)
    IN IF seasonIndicatorRegex(normalizedText)
       THEN \/ TestSxEy(normalizedText, s, e)
            \/ TestSxEy(normalizedText, sShort, eShort)
            \/ TestSxEy(normalizedText, s, eShort)
            \/ TestSxEy(normalizedText, sShort, e)
            \/ TestNxM(normalizedText, sShort, e)
            \/ TestNxM(normalizedText, sShort, eShort)
            \/ TestNxM(normalizedText, s, e)
            \/ TestVerbose(normalizedText, sShort, eShort)
            \/ TestVerbose(normalizedText, s, e)
       ELSE \/ TestE(normalizedText, e)
            \/ TestE(normalizedText, eShort)
            \/ TestEp(normalizedText, eShort)
            \/ TestEp(normalizedText, e)
            \/ TestEpisodeWord(normalizedText, eShort)
            \/ TestEpisodeWord(normalizedText, e)
            \/ TestDelimited(normalizedText, e)

(***************************************************************************)
(* Buffer.from(s).toString("base64url") for ASCII s.                       *)
(***************************************************************************)
\* the byte of an ASCII letter, digit or filename punctuation character
CharCode(c) ==
  CASE c \in Digits -> 48 + DigitVal(c)
    [] c \in UpperChars -> 64 + IndexOf(UpperAlphabet, c)
    [] c \in LowerChars -> 96 + IndexOf(LowerAlphabet, c)
    [] c = " " -> 32
    [] c = "!" -> 33
    [] c = "&" -> 38
    [] c = "'" -> 39
    [] c = "(" -> 40
    [] c = ")" -> 41
    [] c = "+" -> 43
    [] c = "," -> 44
    [] c = "-" -> 45
    [] c = "." -> 46
    [] c = "[" -> 91
    [] c = "]" -> 93
    [] c = "_" -> 95
    [] c = "~" -> 126

Base64UrlAlphabet ==
  "ABCDEFGHIJKLMNOPQRSTUVWXYZabcdefghijklmnopqrstuvwxyz0123456789-_"

Sextet(n) == CharAt(Base64UrlAlphabet, n + 1)

RECURSIVE base64url(_)
base64url(s) ==
  IF Len(s) = 0 THEN ""
  ELSE IF Len(s) = 1 THEN
    LET b1 == CharCode(CharAt(s, 1))
    IN Sextet(b1 \div 4) \o Sextet((b1 % 4) * 16)
  ELSE IF Len(s) = 2 THEN
    LET b1 == CharCode(CharAt(s, 1))
        b2 == CharCode(CharAt(s, 2))
    IN Sextet(b1 \div 4) \o Sextet((b1 % 4) * 16 + b2 \div 16) \o Sextet((b2 % 16) * 4)
  ELSE
    LET b1 == CharCode(CharAt(s, 1))
        b2 == CharCode(CharAt(s, 2))
        b3 == CharCode(CharAt(s, 3))
    IN Sextet(b1 \div 4) \o Sextet((b1 % 4) * 16 + b2 \div 16)
       \o Sextet((b2 % 16) * 4 + b3 \div 64) \o Sextet(b3 % 64)
       \o base64url(SubSeq(s, 4, Len(s)))

\* s.slice(0, n)
SliceTo(s, n) == SubSeq(s, 1, Min(n, Len(s)))

(***************************************************************************)
(* Map: a JavaScript Map, its entries in insertion order.                  *)
(***************************************************************************)
EmptyMap == <<>>

MapHas(m, key) == \E i \in 1..Len(m) : m[i].key = key

MapIndex(m, key) == CHOOSE i \in 1..Len(m) : m[i].key = key

\* m.get(key) when m.has(key)
MapGet(m, key) == m[MapIndex(m, key)].value

MapSet(m, key, value) ==
  IF MapHas(m, key)
  THEN [m EXCEPT ![MapIndex(m, key)] = [key |-> key, value |-> value]]
  ELSE Append(m, [key |-> key, value |-> value])

MapDelete(m, key) == SelectSeq(m, LAMBDA e : e.key # key)

MapKeys(m) == {m[i].key : i \in 1..Len(m)}

(***************************************************************************)
(* class SimpleLRU of src/unnamed/part_000.                                *)
(***************************************************************************)
SimpleLRU(maxSize, ttl) == [maxSize |-> maxSize, ttl |-> ttl, cache |-> EmptyMap]

\* a get that leaves the order of the keys alone
LRUGetInPlace(lru, key, now) ==
  IF ~MapHas(lru.cache, key)
  THEN [found |-> FALSE, lru |-> lru]
  ELSE LET item == MapGet(lru.cache, key) IN
       IF lru.ttl > 0 /\ now - item.timestamp > lru.ttl
       THEN [found |-> FALSE, lru |-> [lru EXCEPT !.cache = MapDelete(@, key)]]
       ELSE [found |-> TRUE, value |-> item.value, lru |-> lru]

\* get(key): found, the value, and the object after the call
LRUGet(lru, key, now) ==
  IF ~MapHas(lru.cache, key)
  THEN [found |-> FALSE, lru |-> lru]
  ELSE LET item == MapGet(lru.cache, key) IN
       IF lru.ttl > 0 /\ now - item.timestamp > lru.ttl
       THEN [found |-> FALSE, lru |-> [lru EXCEPT !.cache = MapDelete(@, key)]]
       ELSE [found |-> TRUE, value |-> item.value,
             lru |-> [lru EXCEPT !.cache = MapSet(MapDelete(@, key), key, item)]]

LRUSet(lru, key, value, now) ==
  LET kept == IF MapHas(lru.cache, key) THEN MapDelete(lru.cache, key)
              ELSE IF Len(lru.cache) >= lru.maxSize
                   THEN MapDelete(lru.cache, lru.cache[1].key)
                   ELSE lru.cache
  IN [lru EXCEPT !.cache = MapSet(kept, key, [value |-> value, timestamp |-> now])]

LRUHas(lru, key) == MapHas(lru.cache, key)

(***************************************************************************)
(* The world outside the engine: what the provider returns for the one     *)
(* title of the model, what its archives hold, what its pages state.       *)
(***************************************************************************)
\* an item of the upstream search; isNull marks a null in the items array
Record(id, language, link, translator, title) ==
  [isNull |-> FALSE, id |-> id, language |-> language, link |-> link,
   translator |-> translator, title |-> title]

NullItem ==
  [isNull |-> TRUE, id |-> "", language |-> "", link |-> "", translator |-> "", title |-> ""]

Rec1 == Record("1", "ro", "https://subs.ro/subtitrare/show/1", "Retail", "Show")
Rec2 == Record("2", "en", "https://subs.ro/subtitrare/show/2", "", "Show")
Rec3 == Record("3", "ro", "", "", "Show retail")

\* what searchByImdb may return: nothing (also after a failure), three records,
\* or an items array holding a null
SearchOutcomes == {<<>>, <<Rec1, Rec2, Rec3>>, <<Rec1, NullItem>>}

\* the .srt paths listSrtFiles finds in the archive of a record
ArchiveListing(subId) ==
  CASE subId = "1" -> <<"Show.S01E02.720p.WEB-DL-GRP.srt",
                        "Show.S01E03.720p.WEB-DL-GRP.srt",
                        "Show.S02E02.HDTV-XYZ.srt">>
    [] subId = "2" -> <<"Show.1x02.srt", "show episode 2.srt", "Show.S01E02.srt">>
    [] subId = "3" -> <<"Show.S01E02.720p.WEB-DL-GRP.srt">>
    [] OTHER -> <<>>

\* what _parsePageMetadata extracts from the page of a record
PageMetadata(pageUrl) == Metadata("23.976", <<"WEB-DL">>)

Paths == UNION {SeqToSet(ArchiveListing(id)) : id \in {"1", "2", "3"}}

VideoFilename == "Show.S01E02.720p.WEB-DL-GRP.mkv"

(***************************************************************************)
(* Requests: the argument {type, id, extra, config} of subtitlesHandler.   *)
(***************************************************************************)
Undefined == [defined |-> FALSE, arr |-> <<>>]
Languages(arr) == [defined |-> TRUE, arr |-> arr]

Config(apiKey, languages, baseUrl) ==
  [present |-> TRUE, apiKey |-> apiKey, languages |-> languages, baseUrl |-> baseUrl]

NoConfig == [present |-> FALSE, apiKey |-> "", languages |-> Undefined, baseUrl |-> ""]

Request(type, id, filename, config) ==
  [type |-> type, id |-> id, extra |-> [filename |-> filename], config |-> config]

ReqMovie ==
  Request("movie", "tt1", VideoFilename, Config("k1", Undefined, "https://a.example"))
ReqMovieOther ==
  Request("movie", "tt1", "", Config("k2", Undefined, "https://b.example"))
ReqEpisode ==
  Request("series", "tt1:1:2", VideoFilename,
          Config("k1", Languages(<<"ro", "en">>), "https://a.example"))
ReqEpisodeSwapped ==
  Request("series", "tt1:1:2", VideoFilename,
          Config("k1", Languages(<<"en", "ro">>), "https://a.example"))
ReqRomanian ==
  Request("movie", "tt1", VideoFilename, Config("k1", Languages(<<"ro">>), ""))
ReqBadId ==
  Request("series", "tt1:x:y", VideoFilename, Config("k2", Undefined, "https://b.example"))
ReqNoKey ==
  Request("movie", "tt1", VideoFilename, Config("", Undefined, "https://a.example"))
ReqNoConfig == Request("movie", "tt1", VideoFilename, NoConfig)
\* an episode that one record has a file for and another has none, asked for with an
\* empty list of languages
ReqEpisodeThree ==
  Request("series", "tt1:1:3", VideoFilename,
          Config("k1", Languages(<<>>), "https://a.example"))

Requests ==
  {ReqMovie, ReqMovieOther, ReqEpisode, ReqEpisodeSwapped, ReqRomanian, ReqBadId,
   ReqNoKey, ReqNoConfig, ReqEpisodeThree}

(***************************************************************************)
(* The matcher's results for the filenames, seasons, episodes and metadata *)
(* of the model, evaluated once; the coordinator reads them through the    *)
(* variable lib, which never changes.                                      *)
(***************************************************************************)
EpisodeArgs ==
  {<<parseStremioId(r.id).season, parseStremioId(r.id).episode>> : r \in Requests}

MetadataValues ==
  {NoMetadata, Metadata("", <<>>)} \cup {PageMetadata(r.link) : r \in {Rec1, Rec2, Rec3}}

matchesEpisodeTable ==
  [p \in Paths |-> [a \in EpisodeArgs |-> matchesEpisode(p, a[1], a[2])]]

calculateMatchScoreTable ==
  [v \in {VideoFilename, ""} |->
    [p \in Paths |-> [m \in MetadataValues |-> calculateMatchScore(v, p, m)]]]

lacksReleaseInfoTable ==
  [p \in Paths |-> getReleaseGroup(p) = NoGroup \/ Len(getQualityTags(p)) = 0]

base64urlTable == [p \in Paths |-> base64url(p)]

\* calculateMatchScore and its group and source tests on the names lib/matcher is
\* called with on its own, for each ratio fuzz.token_set_ratio may return
ScoreWithTable ==
  [videoFilename \in {VideoFilename, ""} |->
    [subtitleFilename \in {"", "other-grp.srt", "Show.S01E02.720p.WEB-DL-XYZ.srt",
                           "Show.S01E02.720p.WEB-DL-GRP.srt", "Show 2.srt"} |->
      [hasGroupMatch |-> hasGroupMatch(videoFilename, subtitleFilename),
       hasSourceMatch |-> [metadata \in MetadataValues |->
                            hasSourceMatch(videoFilename, subtitleFilename, metadata)],
       score |-> [metadata \in MetadataValues |->
                   [fuzzyScore \in {0, 3, 4, 50, 96, 97, 100} |->
                     ScoreWith(videoFilename, subtitleFilename, metadata, fuzzyScore)]]]]]

(***************************************************************************)
(* State.                                                                  *)
(***************************************************************************)
VARIABLES
  probe,                \* the last call made to lib/matcher on its own, and its result
  lib,                  \* lib/matcher and the path encoding, on the names of this world
  rev,                  \* "addon": src/addon.js, "part000": src/unnamed/part_000
  NODE_ENV,             \* process.env.NODE_ENV ("" when unset)
  now,                  \* Date.now(), in milliseconds
  ticks,                \* how many times the clock has advanced
  CACHE,                \* response cache: cacheKey -> {data, timestamp, ttl}
  PENDING_REQUESTS,     \* in-flight map: cacheKey -> fetchTask
  CLIENT_CACHE,         \* apiKey -> SubsRoClient
  ARCHIVE_CACHE,        \* "archive_<id>" -> {srtFiles, timestamp}
  PAGE_METADATA_CACHE,  \* page url -> {data, timestamp}
  calls,                \* the calls of subtitlesHandler and what each returned
  tasks,                \* the fetchTask each call started, if any
  nSearch,              \* number of searchByImdb invocations (history)
  nDownload,            \* record id -> number of archive downloads started (history)
  nMetadata             \* number of page fetches started (history)

vars ==
  <<probe, lib, rev, NODE_ENV, now, ticks, CACHE, PENDING_REQUESTS, CLIENT_CACHE, ARCHIVE_CACHE,
    PAGE_METADATA_CACHE, calls, tasks, nSearch, nDownload, nMetadata>>

CallIds == 1..MaxCalls

\* the sizes of the SimpleLRU caches of part_000 (1000 and 500), scaled down
CacheMaxSize == 1
ClientCacheMaxSize == 1

CACHE_TTL == 15 * 60 * 1000
EMPTY_CACHE_TTL == 60 * 1000
ARCHIVE_CACHE_TTL == 30 * 60 * 1000
PAGE_METADATA_TTL == 24 * 60 * 60 * 1000

BEAMUP_URL == "https://cdcd7719a6b3-stremio-subs-ro.baby-beamup.club"

LANGUAGE_MAPPING(language) ==
  CASE language = "ro" -> "ron"
    [] language = "en" -> "eng"
    [] language = "ita" -> "ita"
    [] language = "fra" -> "fra"
    [] language = "ger" -> "deu"
    [] language = "ung" -> "hun"
    [] language = "gre" -> "ell"
    [] language = "por" -> "por"
    [] language = "spa" -> "spa"
    [] language = "alt" -> "und"
    [] OTHER -> language

(***************************************************************************)
(* The caches, by revision.                                                *)
(***************************************************************************)
\* CACHE.get(key), CLIENT_CACHE.get(key): found, value, and the cache after the call
CacheGet(cache, key, t) ==
  IF rev = "addon"
  THEN IF MapHas(cache, key)
       THEN [found |-> TRUE, value |-> MapGet(cache, key), cache |-> cache]
       ELSE [found |-> FALSE, cache |-> cache]
  ELSE LET g == LRUGet(cache, key, t) IN
       IF g.found THEN [found |-> TRUE, value |-> g.value, cache |-> g.lru]
       ELSE [found |-> FALSE, cache |-> g.lru]

CacheSet(cache, key, value, t) ==
  IF rev = "addon" THEN MapSet(cache, key, value) ELSE LRUSet(cache, key, value, t)

CacheKeys(cache) == IF rev = "addon" THEN MapKeys(cache) ELSE MapKeys(cache.cache)

\* getClient(apiKey): the client cache after the call (the client is new SubsRoClient(apiKey))
getClient(clients, apiKey, t) ==
  IF rev = "addon"
  THEN IF ~MapHas(clients, apiKey) THEN MapSet(clients, apiKey, [apiKey |-> apiKey])
       ELSE clients
  ELSE LET g == CacheGet(clients, apiKey, t) IN
       IF ~g.found THEN CacheSet(g.cache, apiKey, [apiKey |-> apiKey], t) ELSE g.cache

\* an archive cache whose entries never expire
ArchiveCacheGetForever(ac, key, t) ==
  IF MapHas(ac, key) THEN [found |-> TRUE, value |-> MapGet(ac, key)]
  ELSE [found |-> FALSE]

\* lib/archiveCache: ARCHIVE_CACHE.get(key) serves an entry younger than the TTL
ArchiveCacheGet(ac, key, t) ==
  IF MapHas(ac, key) /\ t - MapGet(ac, key).timestamp < ARCHIVE_CACHE_TTL
  THEN [found |-> TRUE, value |-> MapGet(ac, key)]
  ELSE [found |-> FALSE]

ArchiveCacheSet(ac, key, value) == MapSet(ac, key, value)

\* the hit branch of getSubtitleMetadata
PageMetadataCached(mc, pageUrl, t) ==
  MapHas(mc, pageUrl) /\ t - MapGet(mc, pageUrl).timestamp < PAGE_METADATA_TTL

(***************************************************************************)
(* subtitlesHandler: the synchronous part.                                 *)
(***************************************************************************)
\* a handler that asks for a config only
HasCredentialAnyKey(r) == r.config.present

\* "if (!config || !config.apiKey) return { subtitles: [] }"
HasCredential(r) == r.config.present /\ r.config.apiKey # ""

IsSeries(r) == r.type = "series" /\ parseStremioId(r.id).episode # Null

\* `${config.languages || "all"}`: an array is truthy and is joined with ","
LanguagesKey(languages) ==
  IF languages.defined THEN Join(languages.arr, ",") ELSE "all"

CacheKey(r) ==
  LET parsed == parseStremioId(r.id) IN
  IF IsSeries(r)
  THEN parsed.imdbId \o "_s" \o ToStr(parsed.season) \o "e" \o ToStr(parsed.episode)
       \o "_" \o LanguagesKey(r.config.languages)
  ELSE parsed.imdbId \o "_" \o LanguagesKey(r.config.languages)

\* a test that gives every entry the short lifetime
CacheValidShort(look, t) == look.found /\ t - look.value.timestamp < EMPTY_CACHE_TTL

\* the test "cached && Date.now() - cached.timestamp < cached.ttl"
CacheValid(look, t) == look.found /\ t - look.value.timestamp < look.value.ttl

BaseUrl(r) ==
  IF NODE_ENV # "" THEN BEAMUP_URL
  ELSE IF r.config.baseUrl # "" THEN r.config.baseUrl
  ELSE "http://localhost:7000"

(***************************************************************************)
(* fetchTask: the body of the for loop, between two suspensions.           *)
(***************************************************************************)
\* results.filter(sub => config.languages.includes(sub.language)), when it applies
\* a filter that keeps every record
FilterByLanguageNone(r, results) == results

FilterByLanguage(r, results) ==
  IF r.config.languages.defined /\ Len(r.config.languages.arr) > 0
  THEN SelectSeq(results, LAMBDA sub : sub.language \in SeqToSet(r.config.languages.arr))
  ELSE results

\* reading sub.language of a null item throws a TypeError inside filter
FilterThrows(r, results) ==
  /\ r.config.languages.defined /\ Len(r.config.languages.arr) > 0
  /\ \E i \in 1..Len(results) : results[i].isNull

IsRetail(sub) ==
  \/ sub.translator # "" /\ Includes(toLowerCase(sub.translator), "retail")
  \/ sub.title # "" /\ Includes(toLowerCase(sub.title), "retail")

\* part_000: "if (isRetail) matchScore += 5"
WithRetailBonus(matchScore, isRetail) == IF isRetail THEN matchScore + 5 ELSE matchScore

\* the object pushed to allSubtitles for one srtPath of one record (subId: the record
\* it comes from, which the code keeps only inside id and url)
Candidate(r, sub, srtPath, metadata) ==
  LET encodedSrtPath == lib.base64url[srtPath]
      videoFilename == r.extra.filename
      score == IF rev = "addon"
               THEN lib.calculateMatchScore[videoFilename][srtPath][metadata]
               ELSE WithRetailBonus(
                      lib.calculateMatchScore[videoFilename][srtPath][NoMetadata],
                      IsRetail(sub))
  IN [subId |-> sub.id,
      id |-> "subsro_" \o sub.id \o "_" \o SliceTo(encodedSrtPath, 8),
      url |-> BaseUrl(r) \o "/" \o r.config.apiKey \o "/proxy/" \o sub.id \o "/"
              \o encodedSrtPath \o "/sub.vtt",
      lang |-> LANGUAGE_MAPPING(sub.language),
      srtPath |-> srtPath,
      matchScore |-> score]

\* the inner for loop over srtFiles
RECURSIVE Candidates(_, _, _, _)
Candidates(r, sub, srtFiles, metadata) ==
  IF Len(srtFiles) = 0 THEN <<>>
  ELSE LET srtPath == Head(srtFiles)
           parsed == parseStremioId(r.id)
           skip == IsSeries(r)
                   /\ ~lib.matchesEpisode[srtPath][<<parsed.season, parsed.episode>>]
       IN (IF skip THEN <<>> ELSE <<Candidate(r, sub, srtPath, metadata)>>)
          \o Candidates(r, sub, Tail(srtFiles), metadata)

\* srtFiles.some(srtPath => !getReleaseGroup(srtPath) || getQualityTags(srtPath).length === 0)
NeedsMetadata(srtFiles) ==
  \E i \in 1..Len(srtFiles) : lib.lacksReleaseInfo[srtFiles[i]]

\* Where fetchTask stands when it next suspends or ends:
\*   pc = "download": awaiting downloadArchive/listSrtFiles for results[i]
\*   pc = "metadata": awaiting fetchPage for results[i], whose listing is srt
\*   pc = "finish":   the loop is over, allSubtitles = all
\*   pc = "throw":    an exception reached the catch clause
RunState(pc, i, all, srt) == [pc |-> pc, i |-> i, all |-> all, srt |-> srt]

RECURSIVE LoopFrom(_, _, _, _, _, _, _)
RECURSIVE AfterListing(_, _, _, _, _, _, _, _)
RECURSIVE AfterMetadata(_, _, _, _, _, _, _, _, _)

\* the top of the iteration for results[i]: getArchiveSrtList up to its first await
LoopFrom(r, results, i, all, ac, mc, t) ==
  IF i > Len(results) THEN RunState("finish", i, all, <<>>)
  ELSE IF results[i].isNull THEN RunState("throw", i, all, <<>>)
  ELSE LET cached == ArchiveCacheGet(ac, "archive_" \o results[i].id, t) IN
       IF cached.found
       THEN AfterListing(r, results, i, all, cached.value.srtFiles, ac, mc, t)
       ELSE RunState("download", i, all, <<>>)

\* after getArchiveSrtList returned srtFiles: the lazy metadata lookup (addon.js only)
AfterListing(r, results, i, all, srtFiles, ac, mc, t) ==
  IF rev = "addon" /\ NeedsMetadata(srtFiles)
  THEN IF results[i].link = ""
       THEN AfterMetadata(r, results, i, all, srtFiles, Metadata("", <<>>), ac, mc, t)
       ELSE IF PageMetadataCached(mc, results[i].link, t)
       THEN AfterMetadata(r, results, i, all, srtFiles,
                          MapGet(mc, results[i].link).data, ac, mc, t)
       ELSE RunState("metadata", i, all, srtFiles)
  ELSE AfterMetadata(r, results, i, all, srtFiles, NoMetadata, ac, mc, t)

\* a loop that leaves out the record after the one it has just handled
AfterMetadataSkipping(r, results, i, all, srtFiles, metadata, ac, mc, t) ==
  LoopFrom(r, results, i + 2, all \o Candidates(r, results[i], srtFiles, metadata),
           ac, mc, t)

\* the candidates of results[i] are pushed and the loop goes on
AfterMetadata(r, results, i, all, srtFiles, metadata, ac, mc, t) ==
  LoopFrom(r, results, i + 1, all \o Candidates(r, results[i], srtFiles, metadata),
           ac, mc, t)

\* a getArchiveSrtList whose failure propagates to fetchTask
AfterGetArchiveSrtListThrows(r, results, i, all, ok, ac, mc, t) ==
  IF ok
  THEN AfterListing(r, results, i, all, ArchiveListing(results[i].id), ac, mc, t)
  ELSE RunState("throw", i, all, <<>>)

\* getArchiveSrtList returns after its awaits: the listing, or [] from its catch clause
AfterGetArchiveSrtList(r, results, i, all, ok, ac, mc, t) ==
  AfterListing(r, results, i, all, IF ok THEN ArchiveListing(results[i].id) ELSE <<>>,
               ac, mc, t)

\* allSubtitles.sort((a, b) => b.matchScore - a.matchScore): stable, descending
RECURSIVE InsertByScore(_, _)
InsertByScore(sorted, x) ==
  IF Len(sorted) = 0 THEN <<x>>
  ELSE IF Head(sorted).matchScore >= x.matchScore
       THEN <<Head(sorted)>> \o InsertByScore(Tail(sorted), x)
       ELSE <<x>> \o sorted

RECURSIVE SortByScore(_)
SortByScore(all) ==
  IF Len(all) = 0 THEN <<>>
  ELSE InsertByScore(SortByScore(SubSeq(all, 1, Len(all) - 1)), all[Len(all)])

\* .map(({ id, url, lang }) => ({ id, url, lang }))
Project(all) == [i \in 1..Len(all) |-> [id |-> all[i].id, url |-> all[i].url, lang |-> all[i].lang]]

\* addon.js returns the first five; part_000 returns them all
TopMatches(sorted) == IF rev = "addon" THEN SliceTo(sorted, 5) ELSE sorted

Subtitles(all) == Project(TopMatches(SortByScore(all)))

(***************************************************************************)
(* Calls and tasks.                                                        *)
(*                                                                         *)
(* calls[c] is the c-th call of subtitlesHandler: its request, the         *)
(* fetchTask it awaits (0: none, it returned at once) and what it got.     *)
(* History kept with a call: calledAt (the time of the call), after (the   *)
(* calls that had returned when it was made) and sawBy (the task that      *)
(* wrote the response-cache entry stored under its key when it was made,   *)
(* 0 if none was stored).  History kept with a task: doneAt, and the       *)
(* records whose listing succeeded (listed) or failed (failed).            *)
(***************************************************************************)
\* what an awaited subtitlesHandler call gives: a value {subtitles}, or a rejection
Resolved(subtitles) == [rejected |-> FALSE, subtitles |-> subtitles]
Rejected == [rejected |-> TRUE, subtitles |-> <<>>]

\* a fetchTask whose catch clause rethrows
CatchValueRethrown == Rejected

\* the catch clause of fetchTask: return { subtitles: [] }
CatchValue == Resolved(<<>>)

IdleCall ==
  [st |-> "idle", req |-> ReqNoConfig, task |-> 0, out |-> Resolved(<<>>),
   calledAt |-> 0, after |-> {}, sawBy |-> 0]

NoTask ==
  [pc |-> "none", results |-> <<>>, i |-> 0, all |-> <<>>, srt |-> <<>>,
   threw |-> FALSE, doneAt |-> 0, listed |-> {}, failed |-> {}]

Active(t) == tasks[t].pc \in {"search", "download", "metadata"}

\* a handler that never finds a pending request
PendingHasNever(key) == FALSE

\* "PENDING_REQUESTS.has(cacheKey)"
PendingHas(key) == MapHas(PENDING_REQUESTS, key)

\* a fetchTask without its finally clause
ReleasePendingNever(pending, key) == pending

\* the finally clause of fetchTask: PENDING_REQUESTS.delete(cacheKey)
ReleasePending(pending, key) == MapDelete(pending, key)

\* the promise of task t settles with ret: every call awaiting it gets ret
Deliver(t, ret) ==
  [c \in CallIds |->
    IF calls[c].st = "waiting" /\ calls[c].task = t
    THEN [calls[c] EXCEPT !.st = "done", !.out = ret]
    ELSE calls[c]]

\* an entry that gets the long TTL whatever the result
CacheEntryLongTTL(subtitles, t, by) ==
  [data |-> subtitles, timestamp |-> t, ttl |-> CACHE_TTL, by |-> by]

\* "Store in Cache": the entry written for the result (by: the task that wrote it)
CacheEntry(subtitles, t, by) ==
  [data |-> subtitles, timestamp |-> t,
   ttl |-> IF Len(subtitles) > 0 THEN CACHE_TTL ELSE EMPTY_CACHE_TTL,
   by |-> by]

\* the task that wrote the entry stored under key, 0 if none is stored
StoredBy(key) ==
  LET m == IF rev = "addon" THEN CACHE ELSE CACHE.cache IN
  IF ~MapHas(m, key) THEN 0
  ELSE IF rev = "addon" THEN MapGet(m, key).by ELSE MapGet(m, key).value.by

\* fetchTask of call t has run up to run.pc, with the archive and page caches as given
Settle(t, results, run, ac, mc, listed, failed) ==
  LET r == calls[t].req
      key == CacheKey(r)
      going == [tasks[t] EXCEPT !.pc = run.pc, !.results = results, !.i = run.i,
                                !.all = run.all, !.srt = run.srt,
                                !.listed = listed, !.failed = failed]
      ended == [going EXCEPT !.pc = "done", !.i = 0, !.srt = <<>>, !.doneAt = now]
  IN /\ ARCHIVE_CACHE' = ac
     /\ PAGE_METADATA_CACHE' = mc
     /\ UNCHANGED <<probe, lib, rev, NODE_ENV, now, ticks, CLIENT_CACHE, nSearch>>
     /\ CASE run.pc = "download" ->
               /\ tasks' = [tasks EXCEPT ![t] = going]
               /\ nDownload' = [nDownload EXCEPT ![results[run.i].id] = @ + 1]
               /\ UNCHANGED <<CACHE, PENDING_REQUESTS, calls, nMetadata>>
          [] run.pc = "metadata" ->
               /\ tasks' = [tasks EXCEPT ![t] = going]
               /\ nMetadata' = nMetadata + 1
               /\ UNCHANGED <<CACHE, PENDING_REQUESTS, calls, nDownload>>
          [] run.pc = "finish" ->
               LET subtitles == Subtitles(run.all) IN
               /\ CACHE' = CacheSet(CACHE, key, CacheEntry(subtitles, now, t), now)
               /\ PENDING_REQUESTS' = ReleasePending(PENDING_REQUESTS, key)
               /\ tasks' = [tasks EXCEPT ![t] = ended]
               /\ calls' = Deliver(t, Resolved(subtitles))
               /\ UNCHANGED <<nDownload, nMetadata>>
          [] run.pc = "throw" ->
               /\ PENDING_REQUESTS' = ReleasePending(PENDING_REQUESTS, key)
               /\ tasks' = [tasks EXCEPT ![t] = [ended EXCEPT !.threw = TRUE]]
               /\ calls' = Deliver(t, CatchValue)
               /\ UNCHANGED <<CACHE, nDownload, nMetadata>>

\* the records among results[i..] whose listing the archive cache serves before the
\* task next suspends
RECURSIVE ServedFromCache(_, _, _, _, _)
ServedFromCache(results, i, stop, ac, t) ==
  IF i >= stop \/ i > Len(results) THEN {}
  ELSE (IF ~results[i].isNull /\ ArchiveCacheGet(ac, "archive_" \o results[i].id, t).found
        THEN {results[i].id} ELSE {})
       \cup ServedFromCache(results, i + 1, stop, ac, t)

(***************************************************************************)
(* Actions.                                                                *)
(***************************************************************************)
NoProbe == [fn |-> "none"]

Init ==
  /\ probe = NoProbe
  /\ lib = [matchesEpisode |-> matchesEpisodeTable,
            calculateMatchScore |-> calculateMatchScoreTable,
            lacksReleaseInfo |-> lacksReleaseInfoTable,
            base64url |-> base64urlTable,
            ScoreWith |-> ScoreWithTable]
  /\ rev \in {"addon", "part000"}
  /\ NODE_ENV = ""
  /\ now = 0
  /\ ticks = 0
  /\ CACHE = IF rev = "addon" THEN EmptyMap ELSE SimpleLRU(CacheMaxSize, 0)
  /\ PENDING_REQUESTS = EmptyMap
  /\ CLIENT_CACHE = IF rev = "addon" THEN EmptyMap ELSE SimpleLRU(ClientCacheMaxSize, 0)
  /\ ARCHIVE_CACHE = EmptyMap
  /\ PAGE_METADATA_CACHE = EmptyMap
  /\ calls = [c \in CallIds |-> IdleCall]
  /\ tasks = [c \in CallIds |-> NoTask]
  /\ nSearch = 0
  /\ nDownload = [id \in {"1", "2", "3"} |-> 0]
  /\ nMetadata = 0

\* subtitlesHandler is called with r: it runs up to its return, which for a new
\* fetchTask is after searchByImdb has been invoked
Call(c, r) ==
  /\ calls[c].st = "idle"
  /\ IF c = 1 THEN TRUE ELSE calls[c - 1].st # "idle"
  /\ UNCHANGED <<probe, lib, rev, NODE_ENV, now, ticks, ARCHIVE_CACHE, PAGE_METADATA_CACHE,
                 nDownload, nMetadata>>
  /\ LET called == [IdleCall EXCEPT !.req = r, !.calledAt = now,
                                    !.after = {d \in CallIds : calls[d].st = "done"}]
     IN
     IF ~HasCredential(r)
     THEN /\ calls' = [calls EXCEPT ![c] = [called EXCEPT !.st = "done"]]
          /\ UNCHANGED <<CACHE, PENDING_REQUESTS, CLIENT_CACHE, tasks, nSearch>>
     ELSE LET key == CacheKey(r)
              look == CacheGet(CACHE, key, now)
              seen == [called EXCEPT !.sawBy = StoredBy(key)]
          IN /\ CACHE' = look.cache
             /\ IF CacheValid(look, now)
                THEN /\ calls' = [calls EXCEPT ![c] =
                                    [seen EXCEPT !.st = "done",
                                                 !.out = Resolved(look.value.data)]]
                     /\ UNCHANGED <<PENDING_REQUESTS, CLIENT_CACHE, tasks, nSearch>>
                ELSE IF PendingHas(key)
                THEN /\ calls' = [calls EXCEPT ![c] =
                                    [seen EXCEPT !.st = "waiting",
                                                 !.task = MapGet(PENDING_REQUESTS, key)]]
                     /\ UNCHANGED <<PENDING_REQUESTS, CLIENT_CACHE, tasks, nSearch>>
                ELSE /\ CLIENT_CACHE' = getClient(CLIENT_CACHE, r.config.apiKey, now)
                     /\ nSearch' = nSearch + 1
                     /\ tasks' = [tasks EXCEPT ![c] = [NoTask EXCEPT !.pc = "search"]]
                     /\ PENDING_REQUESTS' = MapSet(PENDING_REQUESTS, key, c)
                     /\ calls' = [calls EXCEPT ![c] =
                                    [seen EXCEPT !.st = "waiting", !.task = c]]

\* searchByImdb returns results to fetchTask t (an empty array after a failure)
SearchReturns(t, results) ==
  /\ tasks[t].pc = "search"
  /\ LET r == calls[t].req
         filtered == FilterByLanguage(r, results)
         run == LoopFrom(r, filtered, 1, <<>>, ARCHIVE_CACHE, PAGE_METADATA_CACHE, now)
     IN IF FilterThrows(r, results)
        THEN Settle(t, results, RunState("throw", 0, <<>>, <<>>),
                    ARCHIVE_CACHE, PAGE_METADATA_CACHE, {}, {})
        ELSE Settle(t, filtered, run, ARCHIVE_CACHE, PAGE_METADATA_CACHE,
                    ServedFromCache(filtered, 1,
                                    IF run.pc = "metadata" THEN run.i + 1 ELSE run.i,
                                    ARCHIVE_CACHE, now),
                    {})

\* a getArchiveSrtList that stores the empty listing of a failure too
ArchiveAfterDownloadAlways(ac, subId, ok, srtFiles, t) ==
  ArchiveCacheSet(ac, "archive_" \o subId, [srtFiles |-> srtFiles, timestamp |-> t])

\* the archive cache after getArchiveSrtList: the listing is stored, a failure is not
ArchiveAfterDownload(ac, subId, ok, srtFiles, t) ==
  IF ok
  THEN ArchiveCacheSet(ac, "archive_" \o subId, [srtFiles |-> srtFiles, timestamp |-> t])
  ELSE ac

\* downloadArchive and listSrtFiles return to getArchiveSrtList (ok), or one of them throws
DownloadReturns(t, ok) ==
  /\ tasks[t].pc = "download"
  /\ LET r == calls[t].req
         results == tasks[t].results
         i == tasks[t].i
         subId == results[i].id
         srtFiles == IF ok THEN ArchiveListing(subId) ELSE <<>>
         ac == ArchiveAfterDownload(ARCHIVE_CACHE, subId, ok, srtFiles, now)
         run == AfterGetArchiveSrtList(r, results, i, tasks[t].all, ok, ac,
                                       PAGE_METADATA_CACHE, now)
     IN Settle(t, results, run, ac, PAGE_METADATA_CACHE,
               tasks[t].listed \cup (IF ok THEN {subId} ELSE {})
                 \cup ServedFromCache(results, i + 1,
                                      IF run.pc = "metadata" THEN run.i + 1 ELSE run.i,
                                      ac, now),
               tasks[t].failed \cup (IF ok THEN {} ELSE {subId}))

\* fetchPage returns to getSubtitleMetadata (ok), or throws
MetadataReturns(t, ok) ==
  /\ tasks[t].pc = "metadata"
  /\ LET r == calls[t].req
         results == tasks[t].results
         i == tasks[t].i
         pageUrl == results[i].link
         metadata == IF ok THEN PageMetadata(pageUrl) ELSE Metadata("", <<>>)
         mc == IF ok
               THEN MapSet(PAGE_METADATA_CACHE, pageUrl,
                           [data |-> metadata, timestamp |-> now])
               ELSE PAGE_METADATA_CACHE
         run == AfterMetadata(r, results, i, tasks[t].all, tasks[t].srt, metadata,
                              ARCHIVE_CACHE, mc, now)
     IN Settle(t, results, run, ARCHIVE_CACHE, mc,
               tasks[t].listed
                 \cup ServedFromCache(results, i + 1,
                                      IF run.pc = "metadata" THEN run.i + 1 ELSE run.i,
                                      ARCHIVE_CACHE, now),
               tasks[t].failed)

\* the clock advances by the short lifetime, or from it to the long one
TickSteps == {EMPTY_CACHE_TTL, CACHE_TTL - EMPTY_CACHE_TTL}

Tick(d) ==
  /\ ticks < MaxTicks
  /\ ticks' = ticks + 1
  /\ now' = now + d
  /\ UNCHANGED <<probe, lib, rev, NODE_ENV, CACHE, PENDING_REQUESTS, CLIENT_CACHE, ARCHIVE_CACHE,
                 PAGE_METADATA_CACHE, calls, tasks, nSearch, nDownload, nMetadata>>

\* what the provider and the network do, whatever the requests are
Environment ==
  \/ \E t \in CallIds, results \in SearchOutcomes : SearchReturns(t, results)
  \/ \E t \in CallIds, ok \in BOOLEAN : DownloadReturns(t, ok)
  \/ \E t \in CallIds, ok \in BOOLEAN : MetadataReturns(t, ok)

\* two calls, any request
Next ==
  \/ \E c \in 1..PairCalls, r \in Requests : Call(c, r)
  \/ Environment

Spec == Init /\ [][Next]_vars

\* two calls that share one cache key, when every request a task awaits (the search,
\* a download and its listing, a page fetch) eventually returns or fails
NextLive ==
  \/ \E c \in 1..PairCalls, r \in {ReqMovie, ReqMovieOther} : Call(c, r)
  \/ Environment

\* The fairness condition is WF_vars(Environment) with ENABLED written out: Environment
\* is enabled exactly while some task is active.
SpecLive ==
  /\ Init /\ [][NextLive]_vars
  /\ ([]<>(\A t \in CallIds : ~Active(t)) \/ []<><<Environment>>_vars)

\* three calls that share one cache key or use a second one
FlightRequests == {ReqMovie, ReqMovieOther, ReqRomanian}

NextFlight ==
  \/ \E c \in CallIds, r \in FlightRequests : Call(c, r)
  \/ Environment

SpecFlight == Init /\ [][NextFlight]_vars

\* calls spread over time: two cache keys, a provider that finds nothing or one record
ClockRequests == {ReqMovie, ReqEpisode}
ClockOutcomes == {<<>>, <<Rec3>>}

NextClock ==
  \/ \E c \in CallIds, r \in ClockRequests : Call(c, r)
  \/ \E t \in CallIds, results \in ClockOutcomes : SearchReturns(t, results)
  \/ \E t \in CallIds, ok \in BOOLEAN : DownloadReturns(t, ok)
  \/ \E d \in TickSteps : Tick(d)

SpecClock == Init /\ [][NextClock]_vars

\* two calls spread over the lifetime of an archive entry
NextArchive ==
  \/ \E c \in 1..PairCalls, r \in ClockRequests : Call(c, r)
  \/ \E t \in CallIds, results \in ClockOutcomes : SearchReturns(t, results)
  \/ \E t \in CallIds, ok \in BOOLEAN : DownloadReturns(t, ok)
  \/ \E d \in {CACHE_TTL, ARCHIVE_CACHE_TTL - CACHE_TTL} : Tick(d)

SpecArchive == Init /\ [][NextArchive]_vars

(***************************************************************************)
(* lib/matcher called on its own.  Each behaviour makes one call and keeps *)
(* its arguments and its result in probe.  The ratio of                    *)
(* fuzz.token_set_ratio is an input of the call: the package is outside    *)
(* the repository and calculateMatchScore takes whatever ratio it returns. *)
(***************************************************************************)

\* two candidates scored against the same video filename as the handler's loop scores
\* them: calculateMatchScore, then the retail bonus of part_000; the other revision
\* passes the page metadata and has no retail bonus
ScoreCandidates(videoFilename, a, b) ==
  /\ probe = NoProbe
  /\ \A c \in {a, b} : IF rev = "addon" THEN ~c.isRetail ELSE ~c.metadata.present
  /\ LET Scored(c) ==
           LET row == lib.ScoreWith[videoFilename][c.subtitleFilename]
               score == row.score[c.metadata][c.fuzzyScore]
           IN [subtitleFilename |-> c.subtitleFilename, metadata |-> c.metadata,
               fuzzyScore |-> c.fuzzyScore, isRetail |-> c.isRetail,
               hasGroupMatch |-> row.hasGroupMatch,
               hasSourceMatch |-> row.hasSourceMatch[c.metadata],
               score |-> score, matchScore |-> WithRetailBonus(score, c.isRetail)]
     IN probe' = [fn |-> "calculateMatchScore", videoFilename |-> videoFilename,
                  a |-> Scored(a), b |-> Scored(b)]
  /\ UNCHANGED <<lib, rev, NODE_ENV, now, ticks, CACHE, PENDING_REQUESTS, CLIENT_CACHE,
                 ARCHIVE_CACHE, PAGE_METADATA_CACHE, calls, tasks,
                 nSearch, nDownload, nMetadata>>

\* matchesEpisode on a text; named is what the text says: its season (0: none), its
\* episode (0: none) and the notation it uses
TestEpisode(named, season, episode) ==
  /\ probe = NoProbe
  /\ probe' = [fn |-> "matchesEpisode", named |-> named,
               season |-> season, episode |-> episode,
               result |-> matchesEpisode(named.text, season, episode)]
  /\ UNCHANGED <<lib, rev, NODE_ENV, now, ticks, CACHE, PENDING_REQUESTS, CLIENT_CACHE,
                 ARCHIVE_CACHE, PAGE_METADATA_CACHE, calls, tasks,
                 nSearch, nDownload, nMetadata>>

ExtractGroup(filename) ==
  /\ probe = NoProbe
  /\ probe' = [fn |-> "getReleaseGroup", filename |-> filename,
               result |-> getReleaseGroup(filename)]
  /\ UNCHANGED <<lib, rev, NODE_ENV, now, ticks, CACHE, PENDING_REQUESTS, CLIENT_CACHE,
                 ARCHIVE_CACHE, PAGE_METADATA_CACHE, calls, tasks,
                 nSearch, nDownload, nMetadata>>

NextMatcher ==
  \/ /\ probe = NoProbe
     /\ \E videoFilename \in DOMAIN lib.ScoreWith :
        \E a, b \in [subtitleFilename : DOMAIN lib.ScoreWith[videoFilename],
                      metadata : MetadataValues,
                      fuzzyScore : {0, 3, 4, 50, 96, 97, 100},
                      isRetail : BOOLEAN] :
          ScoreCandidates(videoFilename, a, b)
  \/ /\ probe = NoProbe
     /\ LET Named(text, season, episode, form) ==
           [text |-> text, season |-> season, episode |-> episode, form |-> form]
        IN
        \E named \in {Named("Show.S01E05.1080p", 1, 5, "SxEy"),
                       Named("Show.S02E05.1080p", 2, 5, "SxEy"),
                       Named("Show.S01E02.1080p", 1, 2, "SxEy"),
                       Named("Show.S1E5.srt", 1, 5, "SxEy"),
                       Named("Show.1x05.srt", 1, 5, "NxM"),
                       Named("Show.2x5.srt", 2, 5, "NxM"),
                       Named("Show Season 1 Episode 5.srt", 1, 5, "verbose"),
                       Named("Show Season 12 Episode 5.srt", 12, 5, "verbose"),
                       Named("Show Season 1 Episode 25.srt", 1, 25, "verbose"),
                       Named("Show.E05.srt", 0, 5, "E"),
                       Named("Show.E5.srt", 0, 5, "E"),
                       Named("Show Ep.5.srt", 0, 5, "Ep"),
                       Named("Show Ep 05.srt", 0, 5, "Ep"),
                       Named("Show.Episode.05.720p", 0, 5, "keyword"),
                       Named("Show Episode 5.srt", 0, 5, "keyword"),
                       Named("Show épisode 5.srt", 0, 5, "keyword"),
                       Named("Show - 05 - Title.srt", 0, 5, "delimited"),
                       Named("Show - 5 - Title.srt", 0, 5, "delimited"),
                       Named("Show - 15 - Title.srt", 0, 15, "delimited"),
                       Named("Show.Title.srt", 0, 0, "none")} :
        \E season \in {Num(1), Num(2)}, episode \in {Num(2), Num(5), Null} :
          TestEpisode(named, season, episode)
  \/ /\ probe = NoProbe
     /\ \E filename \in {"Movie.Title.2023.1080p.WEB-DL-RARBG.mkv", "Unknown.File.mkv",
                          "[grp] Show - 01.mkv", "Movie.2023.1080p.mkv", ""} :
          ExtractGroup(filename)

SpecMatcher == Init /\ [][NextMatcher]_vars

(***************************************************************************)
(* SimpleLRU (part_000) on its own: one object, built with a size of 2 and *)
(* with or without a ttl, then a few get and set calls while the clock     *)
(* advances.  probe keeps the object, the last call (op, key, hit) and,    *)
(* as history, used[k]: the rank of the last get hit or set of key k among *)
(* the calls made (0: none).                                               *)
(***************************************************************************)
NewLRU(maxSize, ttl) ==
  /\ probe = NoProbe
  /\ probe' = [fn |-> "SimpleLRU", lru |-> SimpleLRU(maxSize, ttl), op |-> "new",
               key |-> "", hit |-> FALSE, n |-> 0,
               used |-> [k \in {"a", "b", "c"} |-> 0]]
  /\ UNCHANGED <<lib, rev, NODE_ENV, now, ticks, CACHE, PENDING_REQUESTS, CLIENT_CACHE,
                 ARCHIVE_CACHE, PAGE_METADATA_CACHE, calls, tasks,
                 nSearch, nDownload, nMetadata>>

GetKey(key) ==
  /\ probe.fn = "SimpleLRU" /\ probe.n < MaxOps
  /\ LET g == LRUGet(probe.lru, key, now) IN
     probe' = [probe EXCEPT !.lru = g.lru, !.op = "get", !.key = key, !.hit = g.found,
                            !.n = @ + 1,
                            !.used = IF g.found THEN [@ EXCEPT ![key] = probe.n + 1]
                                     ELSE @]
  /\ UNCHANGED <<lib, rev, NODE_ENV, now, ticks, CACHE, PENDING_REQUESTS, CLIENT_CACHE,
                 ARCHIVE_CACHE, PAGE_METADATA_CACHE, calls, tasks,
                 nSearch, nDownload, nMetadata>>

SetKey(key) ==
  /\ probe.fn = "SimpleLRU" /\ probe.n < MaxOps
  /\ probe' = [probe EXCEPT !.lru = LRUSet(probe.lru, key, "v", now),
                            !.op = "set", !.key = key, !.hit = FALSE, !.n = @ + 1,
                            !.used = [@ EXCEPT ![key] = probe.n + 1]]
  /\ UNCHANGED <<lib, rev, NODE_ENV, now, ticks, CACHE, PENDING_REQUESTS, CLIENT_CACHE,
                 ARCHIVE_CACHE, PAGE_METADATA_CACHE, calls, tasks,
                 nSearch, nDownload, nMetadata>>

NextLRU ==
  \/ \E ttl \in {0, EMPTY_CACHE_TTL} : NewLRU(2, ttl)
  \/ \E key \in {"a", "b", "c"} : GetKey(key)
  \/ \E key \in {"a", "b", "c"} : SetKey(key)
  \/ \E d \in TickSteps : Tick(d)

SpecLRU == Init /\ [][NextLRU]_vars

(***************************************************************************)
(* Properties of the request coordinator.                                  *)
(***************************************************************************)
NoCredential(r) == ~r.config.present \/ r.config.apiKey = ""

\* the entry stored under key in the response cache
StoredEntry(key) ==
  IF rev = "addon" THEN MapGet(CACHE, key) ELSE MapGet(CACHE.cache, key).value

\* the task whose result call c returned: the one it awaited, or the one that wrote the
\* entry it was served from (0: the call returned without either)
Origin(c) == IF calls[c].task # 0 THEN calls[c].task ELSE calls[c].sawBy

ResultTTL(subtitles) == IF Len(subtitles) > 0 THEN CACHE_TTL ELSE EMPTY_CACHE_TTL

\* C1: calls made for one cache key while no valid entry is stored under it share one
\* resolution: at most one fetchTask runs per key, every waiting call awaits the task
\* registered for its key, searchByImdb is invoked once per task, and the calls that
\* awaited one task return the same subtitles.
SingleFlight ==
  /\ \A t, u \in CallIds :
       Active(t) /\ Active(u) /\ CacheKey(calls[t].req) = CacheKey(calls[u].req) => t = u
  /\ \A c \in CallIds :
       calls[c].st = "waiting" =>
         /\ Active(calls[c].task)
         /\ CacheKey(calls[calls[c].task].req) = CacheKey(calls[c].req)
         /\ MapHas(PENDING_REQUESTS, CacheKey(calls[c].req))
         /\ MapGet(PENDING_REQUESTS, CacheKey(calls[c].req)) = calls[c].task
  /\ nSearch = Cardinality({t \in CallIds : tasks[t].pc # "none"})
  /\ \A c, d \in CallIds :
       calls[c].st = "done" /\ calls[d].st = "done" /\ calls[c].task # 0
       /\ calls[c].task = calls[d].task => calls[c].out = calls[d].out

\* three calls, not all with the same request, were answered by one search
ThreeCallsOneSearch ==
  /\ nSearch = 1
  /\ \A c \in CallIds :
       calls[c].st = "done" /\ calls[c].task = 1 /\ Len(calls[c].out.subtitles) > 0
  /\ \E c \in CallIds : calls[c].req # calls[1].req

\* call d repeats the request of call c, which had returned the result of a resolution
\* that ended normally, and is made before that result's lifetime is over
Repeats(c, d) ==
  /\ calls[d].st # "idle"
  /\ c \in calls[d].after
  /\ calls[d].req = calls[c].req
  /\ Origin(c) # 0
  /\ ~tasks[Origin(c)].threw
  /\ calls[d].calledAt - tasks[Origin(c)].doneAt < ResultTTL(calls[c].out.subtitles)

ServedAgain(c, d) ==
  calls[d].st = "done" /\ calls[d].task = 0 /\ calls[d].out = calls[c].out

\* C2 (as stated): a call that repeats an answered request within the lifetime of the
\* answer returns the same subtitles without a new search.
RepeatServedWithinTTL ==
  \A c, d \in CallIds : Repeats(c, d) => ServedAgain(c, d)

\* C2: a call that repeats an answered request within the lifetime of the answer, while
\* the entry written for that answer is still stored in the response cache, returns the
\* same subtitles without a new search.
RepeatServedWhileStored ==
  \A c, d \in CallIds :
    Repeats(c, d) /\ calls[d].sawBy = Origin(c) => ServedAgain(c, d)

\* a non-empty answer was served again some time after it was written
RepeatServedLater ==
  \E c, d \in CallIds :
    /\ Repeats(c, d) /\ calls[d].sawBy = Origin(c) /\ ServedAgain(c, d)
    /\ calls[d].calledAt > tasks[Origin(c)].doneAt
    /\ Len(calls[d].out.subtitles) > 0

\* C3: PENDING_REQUESTS holds a key only while the fetchTask registered under it runs;
\* once a task has ended, by a return or by a caught exception, no key maps to it.
PendingOnlyWhileRunning ==
  \A i \in 1..Len(PENDING_REQUESTS) :
    /\ Active(PENDING_REQUESTS[i].value)
    /\ CacheKey(calls[PENDING_REQUESTS[i].value].req) = PENDING_REQUESTS[i].key

\* after a resolution ended in the catch clause, a call for its key started a new one
NewTaskAfterThrow ==
  \E t, c \in CallIds :
    /\ tasks[t].pc = "done" /\ tasks[t].threw
    /\ t \in calls[c].after
    /\ CacheKey(calls[c].req) = CacheKey(calls[t].req)
    /\ calls[c].task = c

\* C4: no call of subtitlesHandler ends in a rejection; every call that has returned
\* gave a sequence of subtitles, empty when its fetchTask caught an exception.
NeverRejects ==
  \A c \in CallIds :
    /\ ~calls[c].out.rejected
    /\ calls[c].st = "done" /\ calls[c].task # 0 /\ tasks[calls[c].task].threw
         => calls[c].out.subtitles = <<>>

\* a call whose search results held a null item and a call with an unparseable id
\* have both returned
ThrowAndBadIdReturned ==
  \E c, d \in CallIds :
    /\ calls[c].st = "done" /\ calls[c].task # 0 /\ tasks[calls[c].task].threw
    /\ calls[d].st = "done" /\ calls[d].req = ReqBadId /\ calls[d].task = d

\* C5: a call whose request has no config or no apiKey returns the empty list at once and
\* leaves the response cache, PENDING_REQUESTS, the client cache and the archive cache
\* as they were, without a search.
NoCredentialNoEffect ==
  [][\A c \in CallIds :
       calls[c].st = "idle" /\ calls'[c].st # "idle" /\ NoCredential(calls'[c].req) =>
         /\ calls'[c].st = "done"
         /\ calls'[c].out = Resolved(<<>>)
         /\ UNCHANGED <<CACHE, PENDING_REQUESTS, CLIENT_CACHE, ARCHIVE_CACHE,
                        PAGE_METADATA_CACHE, tasks, nSearch>>]_vars

\* a call without a credential returned after another call had filled the caches
NoCredentialAfterResolution ==
  \E c, d \in CallIds :
    /\ calls[c].st = "done" /\ NoCredential(calls[c].req)
    /\ d \in calls[c].after /\ calls[d].task = d /\ ~tasks[d].threw
    /\ Len(ARCHIVE_CACHE) > 0 /\ CacheKeys(CACHE) # {}

\* C6: two requests for the same video whose language lists hold the same languages, in
\* any order, have the same cache key, and so share the resolution in flight.
SameLanguagesSameKey ==
  \A c, d \in CallIds :
    /\ calls[c].st # "idle" /\ calls[d].st # "idle"
    /\ ~NoCredential(calls[c].req) /\ ~NoCredential(calls[d].req)
    /\ calls[c].req.type = calls[d].req.type /\ calls[c].req.id = calls[d].req.id
    /\ calls[c].req.config.languages.defined /\ calls[d].req.config.languages.defined
    /\ SeqToSet(calls[c].req.config.languages.arr)
         = SeqToSet(calls[d].req.config.languages.arr)
    => /\ CacheKey(calls[c].req) = CacheKey(calls[d].req)
       /\ calls[c].st = "waiting" /\ calls[d].st = "waiting"
            => calls[c].task = calls[d].task

AtMostFive ==
  /\ \A c \in CallIds : Len(calls[c].out.subtitles) <= 5
  /\ \A key \in CacheKeys(CACHE) : Len(StoredEntry(key).data) <= 5

\* the paths of record subId that request r asks for
ExpectedPaths(r, subId) ==
  LET parsed == parseStremioId(r.id) IN
  {p \in SeqToSet(ArchiveListing(subId)) :
     IsSeries(r) => lib.matchesEpisode[p][<<parsed.season, parsed.episode>>]}

\* C9: a failed download or listing does not end a resolution: a fetchTask ends in its
\* catch clause only when the search results hold a null item, and one that ends
\* normally has gone through every record, each with a listing or a failure, and ranked
\* every path asked for of every record that has a listing.
FailureIsolation ==
  \A t \in CallIds :
    tasks[t].pc = "done" =>
      IF tasks[t].threw
      THEN \E k \in 1..Len(tasks[t].results) : tasks[t].results[k].isNull
      ELSE /\ tasks[t].listed \cup tasks[t].failed
                = {tasks[t].results[k].id : k \in 1..Len(tasks[t].results)}
           /\ tasks[t].listed \cap tasks[t].failed = {}
           /\ \A subId \in tasks[t].listed :
                \A p \in ExpectedPaths(calls[t].req, subId) :
                  \E k \in 1..Len(tasks[t].all) :
                    tasks[t].all[k].subId = subId /\ tasks[t].all[k].srtPath = p

\* a resolution ended normally with candidates although a download had failed
RankedDespiteFailure ==
  \E t \in CallIds :
    /\ tasks[t].pc = "done" /\ ~tasks[t].threw
    /\ tasks[t].failed # {} /\ tasks[t].listed # {}
    /\ Len(calls[t].out.subtitles) > 0

FailedDownloads(subId) == Cardinality({t \in CallIds : subId \in tasks[t].failed})

PendingDownloads(subId) ==
  Cardinality({t \in CallIds :
                 tasks[t].pc = "download" /\ tasks[t].results[tasks[t].i].id = subId})

\* the archive cache holds a record only with the listing of a download that succeeded,
\* and a record whose download failed gives its task no candidate
OnlyListingsCached ==
  /\ \A subId \in DOMAIN nDownload :
       MapHas(ARCHIVE_CACHE, "archive_" \o subId) =>
         /\ MapGet(ARCHIVE_CACHE, "archive_" \o subId).srtFiles = ArchiveListing(subId)
         /\ nDownload[subId] > FailedDownloads(subId) + PendingDownloads(subId)
  /\ \A t \in CallIds : \A k \in 1..Len(tasks[t].all) :
       tasks[t].all[k].subId \notin tasks[t].failed

\* C10: a download or listing that fails stores nothing: the step on which it fails
\* leaves the archive cache as it was and gives the task no candidate of that record,
\* the cache only ever holds listings of downloads that succeeded, so the next
\* getArchiveSrtList for the record downloads again.
FailureNotCached ==
  /\ []OnlyListingsCached
  /\ [][\A t \in CallIds :
          tasks'[t].failed # tasks[t].failed => ARCHIVE_CACHE' = ARCHIVE_CACHE]_vars

\* a record whose download had failed for one task was downloaded again by a later one
DownloadedAgainAfterFailure ==
  \E subId \in DOMAIN nDownload : \E t, u \in CallIds :
    /\ subId \in tasks[t].failed
    /\ t \in calls[u].after
    /\ calls[u].task = u
    /\ subId \in tasks[u].listed \cup tasks[u].failed
    /\ nDownload[subId] = 2

\* C11: the archive cache serves a listing only while its entry is younger than
\* ARCHIVE_CACHE_TTL: a task starts a download for a record only when no entry is
\* stored for it or the stored one has reached that age, and a task gets a listing
\* without downloading only from an entry younger than that.
ArchiveServedWhileYoung ==
  [][\A t \in CallIds :
       /\ (tasks'[t].pc = "download"
            /\ (tasks[t].pc # "download" \/ tasks'[t].i # tasks[t].i)) =>
             LET key == "archive_" \o tasks'[t].results[tasks'[t].i].id IN
             \/ ~MapHas(ARCHIVE_CACHE, key)
             \/ now - MapGet(ARCHIVE_CACHE, key).timestamp >= ARCHIVE_CACHE_TTL
       /\ \A subId \in tasks'[t].listed \ tasks[t].listed :
             \/ tasks[t].pc = "download" /\ tasks[t].results[tasks[t].i].id = subId
             \/ /\ MapHas(ARCHIVE_CACHE', "archive_" \o subId)
                /\ now - MapGet(ARCHIVE_CACHE', "archive_" \o subId).timestamp
                     < ARCHIVE_CACHE_TTL]_vars

\* a record listed by one task was downloaded again by a call made once the entry had
\* reached the archive lifetime
DownloadedAgainAfterExpiry ==
  \E subId \in DOMAIN nDownload : \E t, u \in CallIds :
    /\ t \in calls[u].after /\ calls[u].task = u
    /\ subId \in tasks[t].listed /\ subId \in tasks[u].listed
    /\ tasks[t].failed = {} /\ tasks[u].failed = {}
    /\ nDownload[subId] = 2
    /\ calls[u].calledAt - tasks[t].doneAt >= ARCHIVE_CACHE_TTL

\* C12: calculateMatchScore returns an integer between 0 and 100 for every pair of
\* filenames and every metadata value, and 0 when either filename is empty or missing.
ScoreBound ==
  probe.fn = "calculateMatchScore" =>
    \A c \in {probe.a, probe.b} :
      /\ c.score \in 0..100
      /\ ((probe.videoFilename = "" \/ c.subtitleFilename = "") => c.score = 0)

\* one candidate without a filename and one earning every bonus, both with the
\* highest similarity ratio
ScoredEmptyAndFull ==
  /\ probe.fn = "calculateMatchScore"
  /\ probe.videoFilename # ""
  /\ probe.a.subtitleFilename = "" /\ probe.a.fuzzyScore = 100 /\ probe.a.score = 0
  /\ probe.b.fuzzyScore = 100 /\ probe.b.score = 100

\* C13: of two candidates scored against the same video filename, one that gets the
\* release-group bonus scores strictly more than one that does not, whatever source,
\* technical and similarity bonuses the two get.
GroupMatchOutranks ==
  probe.fn = "calculateMatchScore" =>
    ((probe.a.hasGroupMatch /\ ~probe.b.hasGroupMatch) => probe.a.score > probe.b.score)

\* C14: on a text that names a season, matchesEpisode is true only when the text names
\* the requested season and the requested episode, and it is true when the text names
\* that pair as S{season}E{episode}.
EpisodeStrict ==
  (probe.fn = "matchesEpisode" /\ probe.named.season # 0) =>
    LET same == /\ Num(probe.named.season) = probe.season
                /\ Num(probe.named.episode) = probe.episode
    IN /\ (probe.result => same)
       /\ ((same /\ probe.named.form = "SxEy") => probe.result)

\* C15: on a text that names no season, matchesEpisode is true when the text names the
\* requested episode as E{n}, Ep.{n} or Ep {n}, an episode keyword followed by the
\* number, or a bare delimited integer, zero-padded or not; it is false on a text with
\* no digit.
EpisodeLenient ==
  (probe.fn = "matchesEpisode" /\ probe.named.season = 0) =>
    /\ ((probe.named.form # "none" /\ Num(probe.named.episode) = probe.episode)
          => probe.result)
    /\ (probe.named.form = "none" => ~probe.result)

\* C16: getReleaseGroup gives "RARBG" for "Movie.Title.2023.1080p.WEB-DL-RARBG.mkv" and
\* no group for "Unknown.File.mkv".
GroupExtraction ==
  probe.fn = "getReleaseGroup" =>
    /\ (probe.filename = "Movie.Title.2023.1080p.WEB-DL-RARBG.mkv"
          => probe.result = "RARBG")
    /\ (probe.filename = "Unknown.File.mkv" => probe.result = NoGroup)

\* C20: the bonuses of the tiers below the release group (source, technical, similarity,
\* retail) never add up to more than the group bonus, and those below the source
\* (technical, similarity, retail) never to more than the source bonus.
TierDominance ==
  probe.fn = "calculateMatchScore" =>
    \A c \in {probe.a, probe.b} :
      /\ (~c.hasGroupMatch => c.matchScore <= 50)
      /\ (~c.hasSourceMatch => c.matchScore - (IF c.hasGroupMatch THEN 50 ELSE 0) <= 30)

\* C17: two tasks running under different cache keys never have a download of the
\* same record outstanding at the same time (each would store the record's entry).
ArchiveDownloadedOnce ==
  \A t, u \in CallIds :
    (/\ t # u
     /\ tasks[t].pc = "download" /\ tasks[u].pc = "download"
     /\ CacheKey(calls[t].req) # CacheKey(calls[u].req))
      => tasks[t].results[tasks[t].i].id # tasks[u].results[tasks[u].i].id

\* C18: a task asks for the listings one after the other in the order of the search
\* results: while it waits for the listing or the page of results[i], the records it
\* has a listing or a failure for are exactly those before results[i], and its
\* candidates come in the order of the results.
SequentialListings ==
  \A t \in CallIds :
    tasks[t].pc \in {"download", "metadata"} =>
      LET results == tasks[t].results
          all == tasks[t].all
          handled == IF tasks[t].pc = "download" THEN tasks[t].i - 1 ELSE tasks[t].i
          At(subId) == CHOOSE j \in 1..Len(results) : results[j].id = subId
      IN /\ tasks[t].listed \cup tasks[t].failed = {results[j].id : j \in 1..handled}
         /\ \A j, k \in 1..Len(all) :
              j < k => At(all[j].subId) <= At(all[k].subId)
         /\ \A j \in 1..Len(all) : At(all[j].subId) <= handled

\* a task waits for the third listing after one listing and one failure
ThirdListingAfterTwo ==
  \E t \in CallIds :
    /\ tasks[t].pc = "download" /\ tasks[t].i = 3
    /\ tasks[t].listed # {} /\ tasks[t].failed # {}
    /\ Len(tasks[t].all) > 0

\* C19: a task returns the first min(5, n) of its n candidates in the stable descending
\* order of matchScore: candidate j stands at the place given by the number of
\* candidates that score more, or the same and come before it.
RankedTopFive ==
  \A t \in CallIds :
    (tasks[t].pc = "done" /\ ~tasks[t].threw) =>
      LET all == tasks[t].all
          out == calls[t].out.subtitles
          Before(j, k) == \/ all[j].matchScore > all[k].matchScore
                          \/ all[j].matchScore = all[k].matchScore /\ j < k
          Rank(j) == 1 + Cardinality({k \in 1..Len(all) : Before(k, j)})
      IN /\ Len(out) = Min(5, Len(all))
         /\ \A j \in 1..Len(all) :
              Rank(j) <= Len(out) =>
                out[Rank(j)] = [id |-> all[j].id, url |-> all[j].url, lang |-> all[j].lang]

\* C21: the matchScore a candidate is ranked by, the score of calculateMatchScore plus
\* the retail bonus when the record is a retail one, is an integer between 0 and 100.
RankingScoreBound ==
  probe.fn = "calculateMatchScore" =>
    \A c \in {probe.a, probe.b} : c.matchScore \in 0..100

\* C22: a task fetches the page of a record only when one of the record's candidates,
\* the listed files that pass the episode filter of a series request, has no release
\* group or no quality tag.
LazyMetadata ==
  \A t \in CallIds :
    tasks[t].pc = "metadata" =>
      LET r == calls[t].req
          parsed == parseStremioId(r.id)
          srt == tasks[t].srt
      IN \E i \in 1..Len(srt) :
           /\ IsSeries(r) => lib.matchesEpisode[srt[i]][<<parsed.season, parsed.episode>>]
           /\ lib.lacksReleaseInfo[srt[i]]

\* C23: a record whose page fetch fails gives its task no candidate: when a task stops
\* waiting for the page of results[i] and the page is not stored in the metadata cache
\* (it has never been fetched with success), none of the task's candidates comes from
\* results[i].
MetadataFailureDropsRecord ==
  [][\A t \in CallIds :
       (/\ tasks[t].pc = "metadata"
        /\ tasks'[t].pc # "metadata" \/ tasks'[t].i # tasks[t].i
        /\ ~MapHas(PAGE_METADATA_CACHE', tasks[t].results[tasks[t].i].link))
         => \A j \in 1..Len(tasks'[t].all) :
              tasks'[t].all[j].subId # tasks[t].results[tasks[t].i].id]_vars

\* C24: the step on which a fetchTask ends in its catch clause gives the empty list to
\* every call awaiting it, leaves the response cache as it was and frees the key; a
\* call made for the key of such a task when nothing is stored or pending under it
\* starts a new task at once.
ThrowLeavesNoTrace ==
  /\ [][\A t \in CallIds :
          (tasks[t].pc # "done" /\ tasks'[t].pc = "done" /\ tasks'[t].threw) =>
            /\ CACHE' = CACHE
            /\ ~MapHas(PENDING_REQUESTS', CacheKey(calls[t].req))
            /\ \A c \in CallIds :
                 (calls[c].st = "waiting" /\ calls[c].task = t) =>
                   calls'[c].st = "done" /\ calls'[c].out = Resolved(<<>>)]_vars
  /\ [][\A c, t \in CallIds :
          (/\ calls[c].st = "idle" /\ calls'[c].st # "idle"
           /\ ~NoCredential(calls'[c].req)
           /\ tasks[t].pc = "done" /\ tasks[t].threw
           /\ CacheKey(calls'[c].req) = CacheKey(calls[t].req)
           /\ StoredBy(CacheKey(calls[t].req)) = 0
           /\ ~PendingHas(CacheKey(calls[t].req)))
            => calls'[c].task = c /\ tasks'[c].pc = "search"]_vars

\* a task ended in its catch clause with a second call awaiting it, both got the empty
\* list, and a third call for the same key has started a task of its own
ThrowSharedThenRetried ==
  \E t, c, d \in CallIds :
    /\ tasks[t].pc = "done" /\ tasks[t].threw
    /\ c # t /\ calls[c].task = t /\ calls[c].st = "done"
    /\ calls[t].out = Resolved(<<>>) /\ calls[c].out = Resolved(<<>>)
    /\ t \in calls[d].after /\ calls[d].task = d
    /\ CacheKey(calls[d].req) = CacheKey(calls[t].req)
    /\ StoredBy(CacheKey(calls[t].req)) = 0

\* C25: when every awaited request eventually returns or fails, every fetchTask that
\* has started eventually ends, its key eventually leaves PENDING_REQUESTS, and every
\* call awaiting a task eventually gets a result.
EveryTaskEnds ==
  \A t \in 1..PairCalls :
    (Active(t) \/ calls[t].st = "waiting")
      ~> (/\ ~Active(t)
          /\ calls[t].st = "done"
          /\ \A i \in 1..Len(PENDING_REQUESTS) : PENDING_REQUESTS[i].value # t)

\* a call that joined the task of another call has got the task's result, and the key
\* is no longer pending
JoinedCallServed ==
  \E t, c \in CallIds :
    /\ c # t /\ calls[c].task = t /\ calls[c].st = "done"
    /\ tasks[t].pc = "done" /\ Len(tasks[t].all) > 0
    /\ calls[c].out = calls[t].out
    /\ ~MapHas(PENDING_REQUESTS, CacheKey(calls[t].req))

\* C27: a SimpleLRU never holds more than maxSize keys; a set of a key that is not
\* stored, made when the object is full, removes exactly the stored key whose last get
\* hit or set is the oldest; a set of a stored key removes nothing.
BoundedLRU ==
  /\ [](probe.fn = "SimpleLRU" => Len(probe.lru.cache) <= probe.lru.maxSize)
  /\ [][(probe.fn = "SimpleLRU" /\ probe'.op = "set" /\ probe'.n = probe.n + 1) =>
          LET keys == MapKeys(probe.lru.cache)
              after == MapKeys(probe'.lru.cache)
              oldest == CHOOSE k \in keys : \A j \in keys : probe.used[k] <= probe.used[j]
          IN IF probe'.key \in keys THEN after = keys
             ELSE IF Len(probe.lru.cache) >= probe.lru.maxSize
                  THEN after = (keys \ {oldest}) \cup {probe'.key}
                  ELSE after = keys \cup {probe'.key}]_vars

\* a full object whose oldest inserted key was read again has lost the other key to
\* a set of a third one
ReadKeyOutlivesInsertion ==
  /\ probe.fn = "SimpleLRU" /\ probe.op = "set" /\ probe.key = "c"
  /\ MapKeys(probe.lru.cache) = {"a", "c"}
  /\ probe.used["b"] > 0 /\ probe.used["a"] > probe.used["b"]
  /\ probe.lru.cache[1].key = "a"

\* the records a request asks for: those of its languages, or all of them when it
\* names no language
Filtering(r) == r.config.languages.defined /\ Len(r.config.languages.arr) > 0

AllowedIds(r) ==
  {sub.id : sub \in {rec \in {Rec1, Rec2, Rec3} :
                       Filtering(r) => rec.language \in SeqToSet(r.config.languages.arr)}}

\* C26: with a language list that is not empty, every candidate and every returned
\* subtitle comes from a record whose language is in the list, and no archive is asked
\* for, listed or downloaded for any other record; with an empty or absent list the
\* records searchByImdb returned are all kept.
LanguageFilterExcludes ==
  /\ [](\A t \in CallIds :
         LET r == calls[t].req IN
         Filtering(r) =>
           /\ \A k \in 1..Len(tasks[t].all) : tasks[t].all[k].subId \in AllowedIds(r)
           /\ tasks[t].listed \cup tasks[t].failed \subseteq AllowedIds(r)
           /\ (tasks[t].pc = "download" => tasks[t].results[tasks[t].i].id \in AllowedIds(r))
           /\ (calls[t].st = "done" =>
                 \A k \in 1..Len(calls[t].out.subtitles) :
                   \E id \in AllowedIds(r) :
                     SliceTo(calls[t].out.subtitles[k].id, Len("subsro_" \o id \o "_"))
                       = "subsro_" \o id \o "_"))
  /\ [][\A t \in CallIds :
          (tasks[t].pc = "search" /\ tasks'[t].pc # "search") =>
            LET r == calls[t].req IN
            IF Filtering(r)
            THEN \/ tasks'[t].threw
                 \/ \A k \in 1..Len(tasks'[t].results) :
                      tasks'[t].results[k].id \in AllowedIds(r)
            ELSE tasks'[t].results \in SearchOutcomes]_vars

\* a request for Romanian ended with candidates of both Romanian records, the archive of
\* the English one never downloaded
RomanianOnlyResolved ==
  \E t \in CallIds :
    /\ calls[t].req = ReqRomanian /\ calls[t].st = "done" /\ tasks[t].pc = "done"
    /\ tasks[t].listed = {"1", "3"}
    /\ {tasks[t].all[k].subId : k \in 1..Len(tasks[t].all)} = {"1", "3"}
    /\ Len(calls[t].out.subtitles) > 0
    /\ nDownload["2"] = 0

\* C28: every url a call returns starts with the base URL of that call's own
\* configuration followed by that call's own API key, whether the result was computed
\* for it, read from the response cache or awaited from a task in flight.
OwnCredentialsInUrls ==
  \A c \in CallIds :
    calls[c].st = "done" =>
      \A k \in 1..Len(calls[c].out.subtitles) :
        LET own == BaseUrl(calls[c].req) \o "/" \o calls[c].req.config.apiKey \o "/proxy/"
        IN SliceTo(calls[c].out.subtitles[k].url, Len(own)) = own

\* C29: the ids of the subtitles one call returns are pairwise different.
UniqueIds ==
  \A c \in CallIds :
    calls[c].st = "done" =>
      \A j, k \in 1..Len(calls[c].out.subtitles) :
        j # k => calls[c].out.subtitles[j].id # calls[c].out.subtitles[k].id

\* C30: an entry of the response cache that has the long lifetime was written by a
\* task none of whose downloads or listings failed.
LongLivedEntriesComplete ==
  \A key \in CacheKeys(CACHE) :
    StoredEntry(key).ttl = CACHE_TTL => tasks[StoredBy(key)].failed = {}

====
